---- MODULE Spec2Model ----
(***************************************************************************)
(* Model of kanji_visualizer.py: the IME-aware text field (TextInput), the  *)
(* axis controller (App.next_x / next_y / auto_switch_axis), the layout     *)
(* (App.update_targets, App.load_font, App.change_font), the animation      *)
(* (KanjiSprite.update) and the frame of App.run: UI dispatch, selection,   *)
(* hover check, related set and idle auto-switch.                           *)
(*                                                                          *)
(* Positions fx, fy are integers in units of 1/PosUnit pixel.               *)
(* Python strings are sequences of one-character strings.  Times are the    *)
(* integer milliseconds of pygame.time.get_ticks().  Metric values are      *)
(* integers in units of 0.001, so the 0.001 of the source is 1.             *)
(***************************************************************************)
EXTENDS Integers, Sequences, FiniteSets, TLC

VARIABLES
    now,          \* pygame.time.get_ticks()
    text_input,   \* the TextInput object (App.text_input)
    lastEv,       \* the event most recently passed to TextInput.handle_event
    lastRet,      \* what that call returned
    hist,         \* the events handled since construction, while they follow a scenario
    lastOp,       \* the App operation most recently run
    x_key,        \* App.x_key
    y_key,        \* App.y_key
    btn_x_text,   \* App.btn_x.text
    btn_y_text,   \* App.btn_y.text
    current_font_idx, \* App.current_font_idx
    metric_files, \* the metrics file of each font preset (json.load of load_font)
    raw_data,     \* App.raw_data: the records of the first metrics file loaded
    sprites,      \* App.sprites: per sprite metrics, target and float position
    ranges,       \* App.ranges
    frame,        \* passes of the "Update Sprites" loop of App.run made so far
    pending,      \* events of the batch of this frame the second pass has not reached
    mouse_pos,    \* pygame.mouse.get_pos()
    ui_handled,   \* ui_handled of the event most recently dispatched by App.run
    btn_x_hovered, \* App.btn_x.hovered
    btn_y_hovered, \* App.btn_y.hovered
    selected_sprite, \* App.selected_sprite: 0 for None, else the index in App.sprites
    hovered_sprite,  \* App.hovered_sprite: 0 for None, else the index in App.sprites
    relationships,   \* App.relationships: char -> [parents, children]
    related_nodes,   \* related_nodes of the last frame drawn (indices in App.sprites)
    last_interaction_time,  \* App.last_interaction_time
    last_auto_switch_time,  \* App.last_auto_switch_time
    auto_switch_interval    \* App.auto_switch_interval

textVars == <<text_input, lastEv, lastRet, hist>>
appVars  == <<lastOp, x_key, y_key, btn_x_text, btn_y_text, current_font_idx,
              metric_files, raw_data, sprites, ranges>>
uiVars   == <<pending, mouse_pos, ui_handled, btn_x_hovered, btn_y_hovered, selected_sprite, hovered_sprite,
              relationships, related_nodes>>
idleVars == <<last_interaction_time, last_auto_switch_time, auto_switch_interval>>
runVars  == <<frame, pending, mouse_pos, ui_handled, btn_x_hovered, btn_y_hovered, selected_sprite,
              hovered_sprite, relationships, related_nodes, last_interaction_time,
              last_auto_switch_time, auto_switch_interval>>
vars     == <<now, text_input, lastEv, lastRet, hist, lastOp, x_key, y_key, btn_x_text,
              btn_y_text, current_font_idx, metric_files, raw_data, sprites, ranges,
              frame, pending, mouse_pos, ui_handled, btn_x_hovered, btn_y_hovered,
              selected_sprite, hovered_sprite, relationships, related_nodes,
              last_interaction_time, last_auto_switch_time, auto_switch_interval>>

----------------------------------------------------------------------------
(* Bounds of the model *)

MaxTime == 50      \* the clock stops advancing beyond this
MaxLen  == 2       \* longest committed text the field is driven to

----------------------------------------------------------------------------
(* Geometry of App.create_ui and pygame.Rect *)

panel_x == 30
panel_y == 30
btn_w   == 300
btn_h   == 40
spacing == 0

Rect(x, y, w, h) == [x |-> x, y |-> y, w |-> w, h |-> h]

\* pygame.Rect.collidepoint: left <= px < right and top <= py < bottom
collidepoint(r, p) ==
    /\ r.x <= p[1] /\ p[1] < r.x + r.w
    /\ r.y <= p[2] /\ p[2] < r.y + r.h

\* Button(panel_x, panel_y, btn_w, btn_h, ...)
btn_x_rect == Rect(panel_x, panel_y, btn_w, btn_h)

\* Button(panel_x, panel_y + btn_h + spacing, btn_w, btn_h, ...)
btn_y_rect == Rect(panel_x, panel_y + btn_h + spacing, btn_w, btn_h)

\* TextInput(panel_x, panel_y + (btn_h + spacing) * 2 + 10, btn_w, btn_h, ...)
text_input_rect == Rect(panel_x, panel_y + (btn_h + spacing) * 2 + 10, btn_w, btn_h)

clear_btn_size == text_input_rect.h - 10

clear_rect ==
    Rect(text_input_rect.x + text_input_rect.w - clear_btn_size - 5,
         text_input_rect.y + 5, clear_btn_size, clear_btn_size)

\* pointer positions the environment clicks at
PField == <<100, 140>>    \* inside the field, left of the clear button
PClear == <<310, 140>>    \* on the clear button (which lies inside the field)
POut   == <<800, 500>>    \* outside the field
Points == {PField, PClear, POut}

----------------------------------------------------------------------------
(* Events of the pygame event stream *)

K_BACKSPACE == "K_BACKSPACE"
K_RETURN    == "K_RETURN"
K_a         == "K_a"

CR  == <<"\r">>
LF  == <<"\n">>
TAB == <<"\t">>

NoPos == <<0, 0>>

Event(type, button, pos, key, text) ==
    [type |-> type, button |-> button, pos |-> pos, key |-> key, text |-> text]

MouseDown(b, p)  == Event("MOUSEBUTTONDOWN", b, p, "", <<>>)
MouseUp(b, p)    == Event("MOUSEBUTTONUP", b, p, "", <<>>)
MouseMotion(p)   == Event("MOUSEMOTION", 0, p, "", <<>>)
KeyDown(k)       == Event("KEYDOWN", 0, NoPos, k, <<>>)
TextInputEv(t)   == Event("TEXTINPUT", 0, NoPos, "", t)
TextEditingEv(t) == Event("TEXTEDITING", 0, NoPos, "", t)
NoEvent          == Event("NONE", 0, NoPos, "", <<>>)

\* fragments a commit (TEXTINPUT) carries, and texts of a composition update
Fragments == {<<"a">>, <<"b">>, CR, LF, TAB}
CompTexts == {<<>>, <<"a">>, <<"b">>, <<"a", "b">>}
Keys      == {K_BACKSPACE, K_RETURN, K_a}

----------------------------------------------------------------------------
(* TextInput *)

\* TextInput.__init__; last_input_* and last_commit_* are attributes the
\* constructor does not create: has_* is hasattr(self, ...)
TextInput_init ==
    [text |-> <<>>, composition_text |-> <<>>, focused |-> FALSE,
     select_all_mode |-> FALSE, hovered |-> FALSE,
     has_last_input_text |-> FALSE, last_input_text |-> <<>>, last_input_time |-> 0,
     has_last_commit_text |-> FALSE, last_commit_text |-> <<>>, last_commit_time |-> 0]

Result(st, ret) == [st |-> st, ret |-> ret]

\* a trim that removes the leading character instead of the trailing one
DropLast_leading(s) == IF Len(s) = 0 THEN s ELSE Tail(s)

\* s[:-1]
DropLast(s) == IF Len(s) = 0 THEN s ELSE SubSeq(s, 1, Len(s) - 1)

\* UIElement.handle_event
UIElement_handle_event(self, rect, event) ==
    IF event.type = "MOUSEMOTION"
    THEN [self EXCEPT !.hovered = collidepoint(rect, event.pos)]
    ELSE self

\* "Check clear button first": the guard of the clear branch
clear_clicked(self, event) ==
    self.text # <<>> /\ collidepoint(clear_rect, event.pos)

\* the clear branch: text and composition emptied, focus kept
clear_field(self) ==
    [self EXCEPT !.text = <<>>, !.composition_text = <<>>,
                 !.focused = TRUE, !.select_all_mode = FALSE]

\* click inside the field: focus and select-all mode
focus_gained(self) == [self EXCEPT !.focused = TRUE, !.select_all_mode = TRUE]

\* a focus loss that leaves select-all mode on
focus_lost_keeps_mode(self) == [self EXCEPT !.focused = FALSE]

\* click outside a focused field
focus_lost(self) == [self EXCEPT !.focused = FALSE, !.select_all_mode = FALSE]

\* the MOUSEBUTTONDOWN branch of TextInput.handle_event
TextInput_mousebuttondown(self, event) ==
    IF event.button = 1
    THEN IF clear_clicked(self, event)
         THEN Result(clear_field(self), TRUE)
         ELSE LET was_focused == self.focused
                  focused     == collidepoint(text_input_rect, event.pos)
              IN  IF focused
                  THEN Result(focus_gained(self), TRUE)
                  ELSE IF was_focused
                       THEN Result(focus_lost(self), FALSE)
                       ELSE Result([self EXCEPT !.focused = FALSE], FALSE)
    ELSE Result(self, self.focused)

\* a key branch in which Return turns select-all mode on
TextInput_keydown_return_selects(self, event) ==
    IF event.key = K_BACKSPACE
    THEN IF self.select_all_mode
         THEN Result([self EXCEPT !.text = <<>>, !.select_all_mode = FALSE], FALSE)
         ELSE IF Len(self.composition_text) > 0
              THEN Result([self EXCEPT !.composition_text = DropLast(self.composition_text)],
                          FALSE)
              ELSE Result([self EXCEPT !.text = DropLast(self.text)], FALSE)
    ELSE IF event.key = K_RETURN
         THEN Result([self EXCEPT !.select_all_mode = TRUE], FALSE)
         ELSE Result(self, FALSE)

\* the KEYDOWN branch of a focused field
TextInput_keydown(self, event) ==
    IF event.key = K_BACKSPACE
    THEN IF self.select_all_mode
         THEN Result([self EXCEPT !.text = <<>>, !.select_all_mode = FALSE], FALSE)
         ELSE IF Len(self.composition_text) > 0
              THEN Result([self EXCEPT !.composition_text = DropLast(self.composition_text)],
                          FALSE)
              ELSE Result([self EXCEPT !.text = DropLast(self.text)], FALSE)
    ELSE IF event.key = K_RETURN
         THEN Result([self EXCEPT !.select_all_mode = FALSE], FALSE)
         ELSE Result(self, FALSE)

\* "Double input fix": the fragment repeats the last appended one within 50 ms
DebounceMs == 50

\* a debounce that forgets to look at the clock
IsDuplicate_no_window(self, event, current_time) ==
    /\ self.has_last_input_text
    /\ self.last_input_text = event.text

IsDuplicate(self, event, current_time) ==
    /\ self.has_last_input_text
    /\ self.last_input_text = event.text
    /\ current_time - self.last_input_time < DebounceMs

\* "Ignore control characters"
IsControl(t) == t = CR \/ t = LF \/ t = TAB

\* a commit that appends without clearing the composition
TextInput_textinput_keeps_composition(self, event, current_time) ==
    LET s1 == IF self.select_all_mode
              THEN [self EXCEPT !.text = <<>>, !.select_all_mode = FALSE]
              ELSE self
    IN  IF IsDuplicate(s1, event, current_time)
        THEN Result(s1, TRUE)
        ELSE IF IsControl(event.text)
             THEN Result(s1, TRUE)
             ELSE Result([s1 EXCEPT !.text = s1.text \o event.text,
                                    !.has_last_input_text = TRUE,
                                    !.last_input_text = event.text,
                                    !.last_input_time = current_time], TRUE)

\* the TEXTINPUT branch of a focused field
TextInput_textinput(self, event, current_time) ==
    LET s1 == IF self.select_all_mode
              THEN [self EXCEPT !.text = <<>>, !.select_all_mode = FALSE]
              ELSE self
    IN  IF IsDuplicate(s1, event, current_time)
        THEN Result(s1, TRUE)
        ELSE IF IsControl(event.text)
             THEN Result(s1, TRUE)
             ELSE Result([s1 EXCEPT !.text = s1.text \o event.text,
                                    !.composition_text = <<>>,
                                    !.has_last_input_text = TRUE,
                                    !.last_input_text = event.text,
                                    !.last_input_time = current_time], TRUE)

\* ghost check of the TEXTEDITING branch; it reads last_commit_text and
\* last_commit_time, which no statement of the program assigns
GhostMs == 100

IsGhost(self, event, ticks) ==
    /\ self.has_last_commit_text /\ self.last_commit_text # <<>>
    /\ event.text = self.last_commit_text
    /\ ticks - self.last_commit_time < GhostMs

\* a composition update that does not consume select-all mode
TextInput_textediting_keeps_mode(self, event, ticks) ==
    IF IsGhost(self, event, ticks)
    THEN Result([self EXCEPT !.composition_text = <<>>], TRUE)
    ELSE Result([self EXCEPT !.composition_text = event.text], TRUE)

\* the TEXTEDITING branch of a focused field (composition_start and
\* composition_length, which nothing reads, are left out)
TextInput_textediting(self, event, ticks) ==
    LET s1 == IF self.select_all_mode
              THEN [self EXCEPT !.text = <<>>, !.select_all_mode = FALSE]
              ELSE self
    IN  IF IsGhost(s1, event, ticks)
        THEN Result([s1 EXCEPT !.composition_text = <<>>], TRUE)
        ELSE Result([s1 EXCEPT !.composition_text = event.text], TRUE)

\* TextInput.handle_event
TextInput_handle_event(self, event, ticks) ==
    LET s0 == UIElement_handle_event(self, text_input_rect, event)
    IN  IF event.type = "MOUSEBUTTONDOWN"
        THEN TextInput_mousebuttondown(s0, event)
        ELSE IF s0.focused
             THEN IF event.type = "KEYDOWN"
                  THEN TextInput_keydown(s0, event)
                  ELSE IF event.type = "TEXTINPUT"
                       THEN TextInput_textinput(s0, event, ticks)
                       ELSE IF event.type = "TEXTEDITING"
                            THEN TextInput_textediting(s0, event, ticks)
                            ELSE Result(s0, FALSE)
             ELSE Result(s0, FALSE)

\* TextInput.draw: full_text = self.text + self.composition_text
full_text(self) == self.text \o self.composition_text

----------------------------------------------------------------------------
(* Metrics, datasets and sprites *)

METRICS ==
    <<"horizontal_ratio", "vertical_ratio", "diagonal_ratio", "scale_factor",
      "density", "cog_x", "cog_y", "skeleton_length", "holes", "discreteness",
      "inertia", "endpoints">>

MetricKeys == {METRICS[i] : i \in 1..Len(METRICS)}

METRIC_LABELS ==
    [k \in MetricKeys |->
        CASE k = "horizontal_ratio" -> "Horizontal"
          [] k = "vertical_ratio"   -> "Vertical"
          [] k = "diagonal_ratio"   -> "Diagonal"
          [] k = "scale_factor"     -> "Scale"
          [] k = "density"          -> "Density"
          [] k = "cog_x"            -> "Center of Gravity X"
          [] k = "cog_y"            -> "Center of Gravity Y"
          [] k = "skeleton_length"  -> "Skeleton Length"
          [] k = "holes"            -> "Holes"
          [] k = "discreteness"     -> "Discreteness"
          [] k = "inertia"          -> "Inertia"
          [] OTHER                  -> "Endpoints"]

\* METRICS.index(key), 0-based as in the source
METRICS_index(key) == (CHOOSE i \in 1..Len(METRICS) : METRICS[i] = key) - 1

\* METRICS[idx] for a 0-based idx
METRICS_at(idx) == METRICS[idx + 1]

\* App.get_label
get_label(axis_name, key) == <<axis_name, ": ", METRIC_LABELS[key]>>

\* number of entries of FONT_PRESETS
NumFontPresets == 6

NumSprites == 2          \* records of a metrics file

Chars == [i \in 1..NumSprites |-> <<"c", i>>]

\* per record, the value (in units of 0.001) a file gives the keys at odd
\* positions of METRICS; the keys at even positions get its complement
ValueLists ==
    <<[i \in 1..NumSprites |-> IF i = 1 THEN 0 ELSE 1000],
      [i \in 1..NumSprites |-> 1000],
      [i \in 1..NumSprites |-> IF i = 1 THEN 400 ELSE 0]>>

FileMetrics(v) ==
    [k \in MetricKeys |-> IF METRICS_index(k) % 2 = 0 THEN v ELSE 1000 - v]

\* contents of a kanji_metrics*.json file: a list of {char, metrics}
Dataset(vs) ==
    [i \in 1..NumSprites |-> [char |-> Chars[i], metrics |-> FileMetrics(vs[i])]]

\* what the metrics files of the font presets can hold: preset index -> list
Disks ==
    {[idx \in 0..(NumFontPresets - 1) |->
         Dataset(ValueLists[((idx + d) % Len(ValueLists)) + 1])] :
             d \in 0..(Len(ValueLists) - 1)}

\* screen size (pygame.display.Info)
ScreenW == 1600
ScreenH == 900

Min(S) == CHOOSE m \in S : \A e \in S : m <= e
Max(S) == CHOOSE m \in S : \A e \in S : m >= e

\* the float positions fx, fy are integers in units of 1/PosUnit pixel; an
\* arithmetic result is rounded to the nearest unit as a float operation is
\* rounded to the nearest representable value
PosUnit == 100

\* int(f) of a non-negative float position: whole pixels
ToPixel(f) == f \div PosUnit

\* size of a rendered glyph: self.image scaled to the height 24
sprite_w == 24
sprite_h == 24

\* self.rect = self.image.get_rect(); self.rect.center = (cx, cy)
CenteredRect(cx, cy) == Rect(cx - sprite_w \div 2, cy - sprite_h \div 2, sprite_w, sprite_h)

\* KanjiSprite.__init__ (position drawn by random.randint(0, 1000))
KanjiSprite(d, x, y) ==
    [char |-> d.char, metrics |-> d.metrics,
     target_x |-> x, target_y |-> y, fx |-> x * PosUnit, fy |-> y * PosUnit,
     rect |-> CenteredRect(x, y)]

\* LERP_FACTOR = 0.08
LerpNum == 8
LerpDen == 100

\* a / b for b > 0, rounded to the nearest integer
RoundDiv(a, b) == (2 * a + b) \div (2 * b)

\* a step that jumps onto the target
lerp_step_snap(cur, target) == target

\* self.fx += dx * LERP_FACTOR with dx = self.target_x - self.fx
lerp_step(cur, target) == cur + RoundDiv((target - cur) * LerpNum, LerpDen)

\* KanjiSprite.update
KanjiSprite_update(self) ==
    LET nfx == lerp_step(self.fx, self.target_x * PosUnit)
        nfy == lerp_step(self.fy, self.target_y * PosUnit)
    IN  [self EXCEPT !.fx = nfx, !.fy = nfy,
                     !.rect = CenteredRect(ToPixel(nfx), ToPixel(nfy))]

\* "Fallback if range is zero": 0.001
RangeEps == 1

\* "Precompute Ranges" of App.load_font
compute_ranges(data) ==
    [k \in DOMAIN data[1].metrics |->
        LET vals  == {data[i].metrics[k] : i \in 1..Len(data)}
            v_min == Min(vals)
            v_max == Max(vals)
        IN  <<v_min, IF v_max = v_min THEN v_max + RangeEps ELSE v_max>>]

\* the reload branch of App.load_font: metrics replaced by char
reload_metrics(sps, new_data) ==
    [i \in 1..Len(sps) |->
        IF \E j \in 1..Len(new_data) : new_data[j].char = sps[i].char
        THEN [sps[i] EXCEPT !.metrics =
                 new_data[CHOOSE j \in 1..Len(new_data) :
                              /\ new_data[j].char = sps[i].char
                              /\ \A j2 \in (j+1)..Len(new_data) :
                                     new_data[j2].char # sps[i].char].metrics]
        ELSE sps[i]]

\* padding of the drawing area in App.update_targets
pad_l == 60
pad_r == 60
pad_t == 60
pad_b == 60

\* a normalised value is the fraction num/den with den > 0
Frac(num, den) == [num |-> num, den |-> den]

\* a normalisation without the clamp
Clamp01_none(n) == n

\* max(0.0, min(1.0, n))
Clamp01(n) ==
    IF n.num < 0 THEN Frac(0, n.den)
    ELSE IF n.num > n.den THEN Frac(n.den, n.den)
    ELSE n

\* (v - lo) / (hi - lo), hi already corrected by "Avoid div by zero"
Normalize(v, lo, hi) == Frac(v - lo, hi - lo)

\* pad + n * avail, in whole pixels
Scale(pad, n, avail) == pad + (n.num * avail) \div n.den

\* a layout that also moves every sprite onto its new target
update_targets_snap(sps, rng, xk, yk) ==
    LET x_min   == rng[xk][1]
        x_max   == IF rng[xk][2] <= x_min THEN x_min + RangeEps ELSE rng[xk][2]
        y_min   == rng[yk][1]
        y_max   == IF rng[yk][2] <= y_min THEN y_min + RangeEps ELSE rng[yk][2]
        avail_w == ScreenW - (pad_l + pad_r)
        avail_h == ScreenH - (pad_t + pad_b)
    IN  [i \in 1..Len(sps) |->
            LET nx == Clamp01(Normalize(sps[i].metrics[xk], x_min, x_max))
                ny == Clamp01(Normalize(sps[i].metrics[yk], y_min, y_max))
                fy == Frac(ny.den - ny.num, ny.den)
            IN  [sps[i] EXCEPT !.target_x = Scale(pad_l, nx, avail_w),
                               !.target_y = Scale(pad_t, fy, avail_h),
                               !.fx = Scale(pad_l, nx, avail_w) * PosUnit,
                               !.fy = Scale(pad_t, fy, avail_h) * PosUnit]]

\* s.metrics[self.x_key] or s.metrics[self.y_key] of update_targets raises
\* KeyError at some sprite
targets_raise(sps, xk, yk) ==
    \E i \in 1..Len(sps) : ~({xk, yk} \subseteq DOMAIN sps[i].metrics)

\* App.update_targets; the loop stops at the first sprite whose metrics
\* lack an axis key, the sprites before it have their new targets
update_targets(sps, rng, xk, yk) ==
    LET x_min   == rng[xk][1]
        x_max   == IF rng[xk][2] <= x_min THEN x_min + RangeEps ELSE rng[xk][2]
        y_min   == rng[yk][1]
        y_max   == IF rng[yk][2] <= y_min THEN y_min + RangeEps ELSE rng[yk][2]
        avail_w == ScreenW - (pad_l + pad_r)
        avail_h == ScreenH - (pad_t + pad_b)
    IN  [i \in 1..Len(sps) |->
            IF targets_raise(SubSeq(sps, 1, i), xk, yk)
            THEN sps[i]
            ELSE LET nx == Clamp01(Normalize(sps[i].metrics[xk], x_min, x_max))
                     ny == Clamp01(Normalize(sps[i].metrics[yk], y_min, y_max))
                     fy == Frac(ny.den - ny.num, ny.den)
                 IN  [sps[i] EXCEPT !.target_x = Scale(pad_l, nx, avail_w),
                                    !.target_y = Scale(pad_t, fy, avail_h)]]

\* a cycle step without the "Skip if same" test
next_key_no_skip(cur, other) ==
    METRICS_at((METRICS_index(cur) + 1) % Len(METRICS))

\* a cycle step that stays where it is when the next key is the other axis
next_key_stay(cur, other) ==
    LET curr_idx == METRICS_index(cur)
        next_idx == (curr_idx + 1) % Len(METRICS)
    IN  IF METRICS_at(next_idx) = other
        THEN cur
        ELSE METRICS_at(next_idx)

\* the first key after cur in the cyclic order of METRICS, stepping once
\* more when that key is the other axis (App.next_x / App.next_y)
next_key(cur, other) ==
    LET curr_idx == METRICS_index(cur)
        next_idx == (curr_idx + 1) % Len(METRICS)
    IN  IF METRICS_at(next_idx) = other
        THEN METRICS_at((next_idx + 1) % Len(METRICS))
        ELSE METRICS_at(next_idx)

\* a retry loop that only avoids the y axis
auto_switch_keys_not_y(xk, yk) == {k \in MetricKeys : k # yk}

\* keys the retry loop of App.auto_switch_axis can leave in new_key
auto_switch_keys(xk, yk) == {k \in MetricKeys : ~(k = yk \/ k = xk)}

\* "Re-calc Ranges for Density" and "Update CoG ranges" of App.change_font
recalc_font_ranges(rng, sps) ==
    LET densities == {sps[i].metrics["density"] : i \in 1..Len(sps)}
        d_min     == Min(densities)
        d_max     == IF Max(densities) = d_min THEN Max(densities) + RangeEps
                     ELSE Max(densities)
        cog(key)  == {sps[i].metrics[key] : i \in 1..Len(sps)}
    IN  [k \in DOMAIN rng |->
            IF k = "density" THEN <<d_min, d_max>>
            ELSE IF k \in {"cog_x", "cog_y"} THEN <<Min(cog(k)), Max(cog(k))>>
            ELSE rng[k]]

----------------------------------------------------------------------------
(* State after construction *)

\* TextInput.__init__ as called by App.create_ui
InitText ==
    /\ now = 0
    /\ text_input = TextInput_init
    /\ lastEv = NoEvent
    /\ lastRet = FALSE
    /\ hist = <<>>

\* coordinates random.randint(0, 1000) places the sprites at
InitCoords == {0, 1000}

\* every sprite drawn at (c, 1000 - c)
SamePlace(c) == [i \in 1..NumSprites |-> <<c, 1000 - c>>]

\* random.randint(350, 800) draws the interval from
Intervals == {350, 800}

\* contents of histogram_data.js: char -> parents and children; "zz" is a
\* character no sprite has
NoSuchChar == <<"zz", 0>>
RelationshipFiles ==
    {<<>>,
     (Chars[1] :> [parents |-> <<Chars[NumSprites], NoSuchChar>>, children |-> <<>>]),
     (Chars[1] :> [parents |-> <<>>, children |-> <<>>]) @@
     (Chars[NumSprites] :> [parents |-> <<NoSuchChar>>, children |-> <<Chars[1]>>])}

\* App.__init__: load_font(0) reads data == disk[0], load_relationships reads
\* rel, then init_ui_and_state; sprite i is placed at pos[i]
InitApp(disk, pos, rel, interval) ==
    LET data == disk[0] IN
    /\ frame = 0
    /\ pending = <<>>
    /\ mouse_pos = POut
    /\ ui_handled = FALSE
    /\ btn_x_hovered = FALSE
    /\ btn_y_hovered = FALSE
    /\ selected_sprite = 0
    /\ hovered_sprite = 0
    /\ relationships = rel
    /\ related_nodes = {}
    /\ last_interaction_time = 0
    /\ last_auto_switch_time = 0
    /\ auto_switch_interval = interval
    /\ metric_files = disk
    /\ lastOp = "init"
    /\ current_font_idx = 0
    /\ raw_data = data
    /\ ranges = compute_ranges(data)
    /\ x_key = "density"
    /\ y_key = "skeleton_length"
    /\ btn_x_text = get_label("X", "density")
    /\ btn_y_text = get_label("Y", "skeleton_length")
    /\ sprites = update_targets([i \in 1..Len(data) |->
                                    KanjiSprite(data[i], pos[i][1], pos[i][2])],
                                compute_ranges(data), "density", "skeleton_length")

----------------------------------------------------------------------------
(* The text field: one action per event type passed to handle_event *)

\* hist records the events (with their times) a field has handled since its
\* construction as long as they are the start of one of the two scenarios
\*   left-click in the field, composition update, commit
\*   left-click in the field, commit, commit, the same commit again, backspace
\* (the time is kept for the commits only)
HistOff == <<[ev |-> NoEvent, t |-> 0]>>

IsClickIn(e) ==
    e.type = "MOUSEBUTTONDOWN" /\ e.button = 1 /\ collidepoint(text_input_rect, e.pos)

IsScenario(h) ==
    /\ Len(h) <= 5
    /\ Len(h) >= 1 => IsClickIn(h[1].ev)
    /\ Len(h) >= 2 => h[2].ev.type \in {"TEXTEDITING", "TEXTINPUT"}
    /\ Len(h) >= 3 => h[3].ev.type = "TEXTINPUT"
    /\ Len(h) >= 4 => h[2].ev.type = "TEXTINPUT" /\ h[4].ev = h[3].ev
    /\ Len(h) >= 5 => h[5].ev.type = "KEYDOWN" /\ h[5].ev.key = K_BACKSPACE

Record(h, event, t) ==
    LET e == [ev |-> event, t |-> IF event.type = "TEXTINPUT" THEN t ELSE 0]
    IN  IF h # HistOff /\ IsScenario(Append(h, e)) THEN Append(h, e) ELSE HistOff

\* TextInput.handle_event(event) at the current time
HandleEvent(event) ==
    LET r == TextInput_handle_event(text_input, event, now)
    IN  /\ Len(r.st.text) <= MaxLen
        /\ text_input' = r.st
        /\ lastRet' = r.ret
        /\ lastEv' = event
        /\ hist' = Record(hist, event, now)
        /\ UNCHANGED <<now, appVars, runVars>>

OnMouseButtonDown == \E b \in {1, 3}, p \in Points : HandleEvent(MouseDown(b, p))
OnMouseMotion     == \E p \in Points : HandleEvent(MouseMotion(p))
OnKeyDown         == \E k \in Keys : HandleEvent(KeyDown(k))
OnTextInput       == \E t \in Fragments : HandleEvent(TextInputEv(t))
OnTextEditing     == \E t \in CompTexts : HandleEvent(TextEditingEv(t))

\* time passes between events
TimeSteps == {DebounceMs - 1, DebounceMs}

Tick ==
    \E d \in TimeSteps :
        /\ now + d <= MaxTime
        /\ now' = now + d
        /\ lastEv' = NoEvent
        /\ UNCHANGED <<text_input, lastRet, hist, appVars, runVars>>

NextText ==
    \/ OnMouseButtonDown
    \/ OnMouseMotion
    \/ OnKeyDown
    \/ OnTextInput
    \/ OnTextEditing
    \/ Tick

\* the field is exercised inside an App constructed on one fixed disk
InitTextField ==
    /\ InitText
    /\ InitApp(CHOOSE d \in Disks : TRUE, SamePlace(0), <<>>, 350)

SpecText == InitTextField /\ [][NextText]_vars

----------------------------------------------------------------------------
(* The axis controller and the layout *)

\* App.next_x
next_x ==
    /\ x_key' = next_key(x_key, y_key)
    /\ lastOp' = IF targets_raise(sprites, x_key', y_key) THEN "KeyError" ELSE "next_x"
    /\ btn_x_text' = get_label("X", x_key')
    /\ sprites' = update_targets(sprites, ranges, x_key', y_key)
    /\ UNCHANGED <<y_key, btn_y_text, current_font_idx, metric_files, raw_data, ranges,
                   now, textVars, runVars>>

\* App.next_y
next_y ==
    /\ y_key' = next_key(y_key, x_key)
    /\ lastOp' = IF targets_raise(sprites, x_key, y_key') THEN "KeyError" ELSE "next_y"
    /\ btn_y_text' = get_label("Y", y_key')
    /\ sprites' = update_targets(sprites, ranges, x_key, y_key')
    /\ UNCHANGED <<x_key, btn_x_text, current_font_idx, metric_files, raw_data, ranges,
                   now, textVars, runVars>>

\* the body of App.auto_switch_axis: random.random() < 0.5 picks the axis,
\* the retry loop ends with any key distinct from both axes
auto_switch_axis_call ==
    \E switch_x \in BOOLEAN, new_key \in auto_switch_keys(x_key, y_key) :
        /\ IF switch_x
           THEN /\ x_key' = new_key
                /\ btn_x_text' = get_label("X", new_key)
                /\ UNCHANGED <<y_key, btn_y_text>>
           ELSE /\ y_key' = new_key
                /\ btn_y_text' = get_label("Y", new_key)
                /\ UNCHANGED <<x_key, btn_x_text>>
        /\ sprites' = update_targets(sprites, ranges, x_key', y_key')
        /\ UNCHANGED <<current_font_idx, metric_files, raw_data, ranges>>

\* App.auto_switch_axis
auto_switch_axis ==
    /\ auto_switch_axis_call
    /\ lastOp' = IF targets_raise(sprites, x_key', y_key')
                 THEN "KeyError" ELSE "auto_switch_axis"
    /\ UNCHANGED <<now, textVars, runVars>>

\* a font change that lays the sprites out under the ranges it found
change_font_stale ==
    \E index \in 0..(NumFontPresets - 1) :
        /\ index # current_font_idx
        /\ lastOp' = "change_font"
        /\ current_font_idx' = index
        /\ LET new_data == metric_files[index]
               sps == reload_metrics(sprites, new_data)
               rng == recalc_font_ranges(compute_ranges(raw_data), sps)
           IN  /\ ranges' = rng
               /\ sprites' = update_targets(sps, ranges, x_key, y_key)
        /\ UNCHANGED <<x_key, y_key, btn_x_text, btn_y_text, metric_files, raw_data,
                       now, textVars, runVars>>

\* exceptions that leave an operation; lastOp holds the name of the one raised
Raised == {"KeyError", "IndexError"}

\* s.metrics['density'] of "Re-calc Ranges for Density" raises KeyError
\* (the metrics files modelled lack neither cog_x nor cog_y)
density_missing(sps) == \E i \in 1..Len(sps) : "density" \notin DOMAIN sps[i].metrics

\* App.change_font(index); load_font(index) reads new_data from the file.
\* When the KeyError is raised load_font has completed: the metrics are
\* replaced and the ranges are those of raw_data
change_font ==
    \E index \in 0..(NumFontPresets - 1) :
        /\ index # current_font_idx
        /\ current_font_idx' = index
        /\ LET new_data == metric_files[index]
               sps == reload_metrics(sprites, new_data)
               rng == recalc_font_ranges(compute_ranges(raw_data), sps)
           IN  IF density_missing(sps)
               THEN /\ lastOp' = "KeyError"
                    /\ ranges' = compute_ranges(raw_data)
                    /\ sprites' = sps
               ELSE /\ lastOp' = IF targets_raise(sps, x_key, y_key)
                                 THEN "KeyError" ELSE "change_font"
                    /\ ranges' = rng
                    /\ sprites' = update_targets(sps, rng, x_key, y_key)
        /\ UNCHANGED <<x_key, y_key, btn_x_text, btn_y_text, metric_files, raw_data,
                       now, textVars, runVars>>

InitLayout ==
    /\ InitText
    /\ \E disk \in Disks, c \in InitCoords : InitApp(disk, SamePlace(c), <<>>, 350)

NextLayout ==
    \/ next_x
    \/ next_y
    \/ auto_switch_axis
    \/ change_font

SpecLayout == InitLayout /\ [][NextLayout]_vars

----------------------------------------------------------------------------
(* Loading metrics files that are empty or lack a key *)

\* the list data with key removed from the metrics of its first record
Without(data, key) ==
    [data EXCEPT ![1].metrics =
        [k \in (DOMAIN data[1].metrics) \ {key} |-> data[1].metrics[k]]]

\* metrics files: complete, one record without "holes", no record at all,
\* complete, one record without "density"
LoadFiles ==
    <<Dataset(ValueLists[1]),
      Without(Dataset(ValueLists[1]), "holes"),
      <<>>,
      Dataset(ValueLists[2]),
      Without(Dataset(ValueLists[3]), "density")>>

\* what the files of the font presets hold; the file of preset 0 is
\* complete or empty
LoadDisks ==
    {[idx \in 0..(NumFontPresets - 1) |-> LoadFiles[((idx + d) % Len(LoadFiles)) + 1]] :
        d \in {0, 2, 3}}

\* App.__init__ on a disk whose first file is empty: load_font(0) sets
\* raw_data and sprites to the empty list, assigns self.ranges = {} and
\* raises IndexError at self.raw_data[0]; init_ui_and_state is not reached
\* (the axis variables hold the keys it would have assigned)
InitRaised(disk) ==
    /\ frame = 0
    /\ pending = <<>>
    /\ mouse_pos = POut
    /\ ui_handled = FALSE
    /\ btn_x_hovered = FALSE
    /\ btn_y_hovered = FALSE
    /\ selected_sprite = 0
    /\ hovered_sprite = 0
    /\ relationships = <<>>
    /\ related_nodes = {}
    /\ last_interaction_time = 0
    /\ last_auto_switch_time = 0
    /\ auto_switch_interval = 350
    /\ metric_files = disk
    /\ lastOp = "IndexError"
    /\ current_font_idx = 0
    /\ raw_data = <<>>
    /\ ranges = <<>>
    /\ x_key = "density"
    /\ y_key = "skeleton_length"
    /\ btn_x_text = get_label("X", "density")
    /\ btn_y_text = get_label("Y", "skeleton_length")
    /\ sprites = <<>>

InitLoad ==
    /\ InitText
    /\ \E disk \in LoadDisks, c \in InitCoords :
           IF disk[0] = <<>>
           THEN InitRaised(disk)
           ELSE InitApp(disk, SamePlace(c), <<>>, 350)

\* a click on a font button or on an axis button; an exception raised
\* ends the session
NextLoad ==
    \/ lastOp \notin Raised /\ change_font
    \/ lastOp \notin Raised /\ next_x
    \/ lastOp \notin Raised /\ next_y

SpecLoad == InitLoad /\ [][NextLoad]_vars

----------------------------------------------------------------------------
(* The animation: the "Update Sprites" loop of a frame of App.run *)

MaxFrames == 140     \* frames the animation is followed for

\* for s in self.sprites: s.update()
update_sprites ==
    /\ frame < MaxFrames
    /\ frame' = frame + 1
    /\ lastOp' = "update"
    /\ sprites' = [i \in 1..Len(sprites) |-> KanjiSprite_update(sprites[i])]
    /\ UNCHANGED <<x_key, y_key, btn_x_text, btn_y_text, current_font_idx, metric_files,
                   raw_data, ranges, now, textVars, uiVars, idleVars>>

\* the x axis is chosen before the first frame; from then on the targets
\* are fixed and the sprites move
NextAnim ==
    \/ frame = 0 /\ next_x
    \/ update_sprites

SpecAnim == InitLayout /\ [][NextAnim]_vars

----------------------------------------------------------------------------
(* The event pass of a frame of App.run: UI dispatch, selection, hover check
   and the related set of the draw *)

\* Button.handle_event on a button whose hovered flag is h: the new flag
\* and whether the callback ran (the value returned)
Button_handle_event(h, rect, event) ==
    LET nh == IF event.type = "MOUSEMOTION" THEN collidepoint(rect, event.pos) ELSE h
    IN  [hovered |-> nh,
         ret |-> event.type = "MOUSEBUTTONDOWN" /\ nh /\ event.button = 1]

\* a hit test that walks the sprites in insertion order
sprite_at_first(sps, p) ==
    LET hits == {i \in 1..Len(sps) : collidepoint(sps[i].rect, p)}
    IN  IF hits = {} THEN 0 ELSE Min(hits)

\* for i in range(len(self.sprites)-1, -1, -1): the first sprite from the
\* end whose rect contains p, 0 for None
sprite_at(sps, p) ==
    LET hits == {i \in 1..Len(sps) : collidepoint(sps[i].rect, p)}
    IN  IF hits = {} THEN 0 ELSE Max(hits)

\* a selection that ignores ui_handled
selection_after_unconsumed(sel, event, handled, sps) ==
    IF event.type = "MOUSEBUTTONDOWN" /\ event.button = 1
    THEN sprite_at(sps, event.pos)
    ELSE sel

\* "Sprite Selection" of App.run, reached when no element handled the event
selection_after(sel, event, handled, sps) ==
    IF ~handled /\ event.type = "MOUSEBUTTONDOWN" /\ event.button = 1
    THEN sprite_at(sps, event.pos)
    ELSE sel

\* self.sprite_map = {s.char: s for s in self.sprites}: a later sprite
\* replaces an earlier one of the same char
sprite_map_has(sps, c) == \E i \in 1..Len(sps) : sps[i].char = c
sprite_map_get(sps, c) == Max({i \in 1..Len(sps) : sps[i].char = c})

\* the elements of the list seq
Range(seq) == {seq[i] : i \in 1..Len(seq)}

\* a related set that leaves the children out
related_nodes_of_parents(sel, rel, sps) ==
    IF sel = 0 THEN {}
    ELSE IF sps[sel].char \notin DOMAIN rel THEN {}
    ELSE {sel} \cup
         {sprite_map_get(sps, c) :
             c \in {p \in Range(rel[sps[sel].char].parents) : sprite_map_has(sps, p)}}

\* related_nodes as the draw of App.run builds it
related_nodes_of(sel, rel, sps) ==
    IF sel = 0 THEN {}
    ELSE IF sps[sel].char \notin DOMAIN rel THEN {}
    ELSE {sel} \cup
         {sprite_map_get(sps, c) :
             c \in {p \in Range(rel[sps[sel].char].parents) : sprite_map_has(sps, p)}} \cup
         {sprite_map_get(sps, c) :
             c \in {p \in Range(rel[sps[sel].char].children) : sprite_map_has(sps, p)}}

\* one frame of App.run whose batch holds the one event: the second pass
\* over the batch, the hover check and the related set of the draw.
\* ui_elements holds btn_x, btn_y, text_input twice, then the font buttons;
\* no position of SelPoints lies on a font button, so those stay unhovered
\* and return False
run_event(event) ==
    IF event.type = "KEYDOWN"
    THEN /\ last_interaction_time' = now
         /\ lastOp' = "event"
         /\ lastEv' = event
         /\ ui_handled' = FALSE
         /\ hovered_sprite' = sprite_at(sprites, mouse_pos)
         /\ related_nodes' = related_nodes_of(selected_sprite, relationships, sprites)
         /\ UNCHANGED <<now, text_input, lastRet, hist, x_key, y_key, btn_x_text,
                        btn_y_text, current_font_idx, metric_files, raw_data, sprites,
                        ranges, frame, mouse_pos, btn_x_hovered, btn_y_hovered,
                        selected_sprite, relationships, last_auto_switch_time,
                        auto_switch_interval>>
    ELSE LET bx1 == Button_handle_event(btn_x_hovered, btn_x_rect, event)
             x1  == IF bx1.ret THEN next_key(x_key, y_key) ELSE x_key
             by1 == Button_handle_event(btn_y_hovered, btn_y_rect, event)
             y1  == IF by1.ret THEN next_key(y_key, x1) ELSE y_key
             t1  == TextInput_handle_event(text_input, event, now)
             bx2 == Button_handle_event(bx1.hovered, btn_x_rect, event)
             x2  == IF bx2.ret THEN next_key(x1, y1) ELSE x1
             by2 == Button_handle_event(by1.hovered, btn_y_rect, event)
             y2  == IF by2.ret THEN next_key(y1, x2) ELSE y1
             t2  == TextInput_handle_event(t1.st, event, now)
             handled == bx1.ret \/ by1.ret \/ t1.ret \/ bx2.ret \/ by2.ret \/ t2.ret
             sel == selection_after(selected_sprite, event, handled, sprites)
             pos == IF event.type \in {"MOUSEMOTION", "MOUSEBUTTONDOWN", "MOUSEBUTTONUP"}
                    THEN event.pos ELSE mouse_pos
         IN  /\ Len(t2.st.text) <= MaxLen
             /\ last_interaction_time' =
                    IF event.type \in {"MOUSEMOTION", "MOUSEBUTTONDOWN", "MOUSEBUTTONUP"}
                    THEN now ELSE last_interaction_time
             /\ lastOp' = "event"
             /\ lastEv' = event
             /\ lastRet' = t2.ret
             /\ text_input' = t2.st
             /\ btn_x_hovered' = bx2.hovered
             /\ btn_y_hovered' = by2.hovered
             /\ x_key' = x2
             /\ y_key' = y2
             /\ btn_x_text' = IF bx1.ret THEN get_label("X", x2) ELSE btn_x_text
             /\ btn_y_text' = IF by1.ret THEN get_label("Y", y2) ELSE btn_y_text
             /\ sprites' = IF bx1.ret \/ by1.ret
                           THEN update_targets(sprites, ranges, x2, y2) ELSE sprites
             /\ ui_handled' = handled
             /\ selected_sprite' = sel
             /\ mouse_pos' = pos
             /\ hovered_sprite' = sprite_at(sprites, pos)
             /\ related_nodes' = related_nodes_of(sel, relationships, sprites)
             /\ UNCHANGED <<now, hist, current_font_idx, metric_files, raw_data, ranges,
                            frame, relationships, last_auto_switch_time,
                            auto_switch_interval>>

\* the sprites stand in a row, each overlapping the next, and the row
\* overlaps the lower edge of the text field
InRow == [i \in 1..NumSprites |-> <<100 + 12 * (i - 1), 165>>]

\* pointer positions of the selection scenarios
POnly1 == <<90, 170>>     \* inside the first sprite only
PBoth  == <<105, 170>>    \* inside the first and the second sprite
PUnder == <<90, 155>>     \* inside the first sprite and inside the text field
PBtnX  == <<100, 50>>     \* on the X button
SelPoints == {POnly1, PBoth, PUnder, PBtnX, POut}

OnClick ==
    \E b \in {1, 3}, p \in SelPoints : run_event(MouseDown(b, p)) /\ UNCHANGED pending
OnRelease == \E p \in SelPoints : run_event(MouseUp(1, p)) /\ UNCHANGED pending
OnMove    == \E p \in SelPoints : run_event(MouseMotion(p)) /\ UNCHANGED pending
OnKey     == run_event(KeyDown(K_a)) /\ UNCHANGED pending

InitSelect ==
    /\ InitText
    /\ \E rel \in RelationshipFiles :
           InitApp(CHOOSE d \in Disks : TRUE, InRow, rel, 350)

NextSelect ==
    \/ OnClick
    \/ OnRelease
    \/ OnMove
    \/ OnKey

SpecSelect == InitSelect /\ [][NextSelect]_vars

----------------------------------------------------------------------------
(* The batch of a frame of App.run: events = pygame.event.get(), then the
   second pass over it, one event per step *)

\* events a batch is made of
LoopEvents ==
    {MouseDown(1, PUnder), MouseMotion(POut), TextInputEv(<<"a">>), KeyDown(K_BACKSPACE)}

\* longest batch
MaxBatch == 2

\* the frames are followed up to this time
MaxLoopTime == 150

Batches == UNION {[1..n -> LoopEvents] : n \in 1..MaxBatch}

\* events = pygame.event.get() of a frame DebounceMs after the previous one;
\* the first pass over the batch looks for QUIT and K_ESCAPE only, and no
\* event of LoopEvents is one of them
drain ==
    /\ pending = <<>>
    /\ now + DebounceMs <= MaxLoopTime
    /\ now' = now + DebounceMs
    /\ \E batch \in Batches : pending' = batch
    /\ lastOp' = "drain"
    /\ UNCHANGED <<textVars, x_key, y_key, btn_x_text, btn_y_text, current_font_idx,
                   metric_files, raw_data, sprites, ranges, frame, mouse_pos, ui_handled,
                   btn_x_hovered, btn_y_hovered, selected_sprite, hovered_sprite,
                   relationships, related_nodes, idleVars>>

\* the body of the second pass for the next event of the batch
dispatch ==
    /\ pending # <<>>
    /\ run_event(Head(pending))
    /\ pending' = Tail(pending)

InitLoop ==
    /\ InitText
    /\ InitApp(CHOOSE d \in Disks : TRUE, InRow, <<>>, 350)

NextLoop ==
    \/ drain
    \/ dispatch

SpecLoop == InitLoop /\ [][NextLoop]_vars

----------------------------------------------------------------------------
(* The idle logic of a frame of App.run *)

\* self.idle_timeout = 10000
idle_timeout == 10000

MaxIdleTime == 11000     \* the frames are followed up to this time

\* time between one frame and the next
IdleSteps == {300, idle_timeout + 1}

\* what the batch of a frame holds: nothing, or one event away from every
\* UI element and sprite (the field is unfocused, so the UI state stays)
IdleBatch == {NoEvent, MouseMotion(POut), MouseDown(3, POut), KeyDown(K_a)}

\* the tests of "Interaction detected on keydown too" and "Interaction
\* detection for mouse"
is_interaction(event) ==
    event.type \in {"KEYDOWN", "MOUSEMOTION", "MOUSEBUTTONDOWN", "MOUSEBUTTONUP"}

\* an idle test that always passes
is_idle_always(t, last) == TRUE

\* current_time - self.last_interaction_time > self.idle_timeout
is_idle(t, last) == t - last > idle_timeout

\* a cadence test that always passes
switch_due_always(t, last, interval) == TRUE

\* current_time - self.last_auto_switch_time > self.auto_switch_interval
switch_due(t, last, interval) == t - last > interval

\* one frame of App.run, d after the previous one, whose batch is event:
\* interaction detection, then "Idle Auto-Switch"
run_tick(d, event) ==
    /\ now + d <= MaxIdleTime
    /\ now' = now + d
    /\ lastEv' = event
    /\ last_interaction_time' = IF is_interaction(event) THEN now' ELSE last_interaction_time
    /\ IF /\ is_idle(now', last_interaction_time')
          /\ switch_due(now', last_auto_switch_time, auto_switch_interval)
       THEN /\ auto_switch_axis_call
            /\ lastOp' = "auto_switch_axis"
            /\ last_auto_switch_time' = now'
            /\ auto_switch_interval' \in Intervals
       ELSE /\ lastOp' = "tick"
            /\ UNCHANGED <<x_key, y_key, btn_x_text, btn_y_text, sprites, current_font_idx,
                           metric_files, raw_data, ranges, last_auto_switch_time,
                           auto_switch_interval>>
    /\ UNCHANGED <<text_input, lastRet, hist, frame, uiVars>>

QuietFrame == \E d \in IdleSteps : run_tick(d, NoEvent)
BusyFrame  == \E d \in IdleSteps, e \in IdleBatch \ {NoEvent} : run_tick(d, e)

InitIdle ==
    /\ InitText
    /\ \E interval \in Intervals :
           InitApp(CHOOSE d \in Disks : TRUE, SamePlace(0), <<>>, interval)

NextIdle ==
    \/ QuietFrame
    \/ BusyFrame

SpecIdle == InitIdle /\ [][NextIdle]_vars

----------------------------------------------------------------------------
(* Properties *)

\* the commit (TEXTINPUT) this step passes to a focused field
CommitStep == lastEv'.type = "TEXTINPUT" /\ text_input.focused

\* the fragment of this step repeats the last appended fragment less than
\* 50 ms after it was appended
RepeatsWithinWindow ==
    /\ text_input.has_last_input_text
    /\ text_input.last_input_text = lastEv'.text
    /\ now - text_input.last_input_time < 50

ControlOnly(t) == t \in {CR, LF, TAB}

\* C1: the two axes never hold the same metric key, after any sequence of
\* next_x, next_y, auto_switch_axis (and font changes)
C1_AxesDistinct == x_key # y_key

\* next_x has stepped over the key of the Y axis
C1_Witness ==
    lastOp = "next_x" /\ y_key = "skeleton_length" /\ x_key = "holes"

\* C2 as stated, for every focused field: a repeated fragment inside the
\* window is dropped and leaves the committed text as it was; any other
\* fragment (control characters aside) is appended to what select-all mode
\* leaves of the committed text
C2_Original ==
    [][CommitStep =>
        IF RepeatsWithinWindow
        THEN text_input'.text = text_input.text
        ELSE ControlOnly(lastEv'.text)
                \/ text_input'.text =
                      (IF text_input.select_all_mode THEN <<>> ELSE text_input.text)
                          \o lastEv'.text]_vars

\* the scenario click, commit(a), commit(b), commit(b) inside the window
\* (and then backspace) on a new field, for distinct text fragments a and b
C2_Scenario(n) ==
    /\ Len(hist) = n
    /\ hist[2].ev.type = "TEXTINPUT" /\ ~ControlOnly(hist[2].ev.text)
    /\ ~ControlOnly(hist[3].ev.text)
    /\ hist[2].ev.text # hist[3].ev.text
    /\ hist[4].ev.text = hist[3].ev.text
    /\ hist[4].t - hist[3].t < 50

\* C2: on a focused field that is not in select-all mode, a fragment repeating
\* the last appended one less than 50 ms after it is dropped and the committed
\* text stays; a repeat after the window, or a different fragment that is not
\* a control character, is appended.  On a new field click, commit(a),
\* commit(b), commit(b) in the window shows a+b, and a backspace then shows a.
C2_Debounce ==
    /\ [][(CommitStep /\ ~text_input.select_all_mode) =>
            IF RepeatsWithinWindow
            THEN text_input'.text = text_input.text
            ELSE ControlOnly(lastEv'.text)
                    \/ text_input'.text = text_input.text \o lastEv'.text]_vars
    /\ [](C2_Scenario(4) => full_text(text_input) = hist[2].ev.text \o hist[3].ev.text)
    /\ [](C2_Scenario(5) => full_text(text_input) = hist[2].ev.text)

C2_Witness ==
    /\ C2_Scenario(5)
    /\ hist[2].ev.text = <<"a">> /\ hist[3].ev.text = <<"b">>
    /\ text_input.text = <<"a">>

\* C3: a commit of a non-control fragment to a focused field in select-all
\* mode leaves the committed text equal to the fragment, the composition
\* empty, select-all mode off, and the fragment and the time recorded
C3_ReplaceAll ==
    [][(CommitStep /\ text_input.select_all_mode /\ ~ControlOnly(lastEv'.text)) =>
        /\ text_input'.text = lastEv'.text
        /\ text_input'.composition_text = <<>>
        /\ ~text_input'.select_all_mode
        /\ text_input'.has_last_input_text
        /\ text_input'.last_input_text = lastEv'.text
        /\ text_input'.last_input_time = now]_vars

\* the composition text of this step equals the fragment committed last, less
\* than 100 ms after that commit
EchoesLastCommit ==
    /\ text_input.has_last_input_text
    /\ text_input.last_input_text = lastEv'.text
    /\ now - text_input.last_input_time < 100

\* C4: a composition update echoing the last committed fragment within 100 ms
\* leaves the composition empty; any other one sets it to the event's text
C4_GhostSuppressed ==
    [][(lastEv'.type = "TEXTEDITING" /\ text_input.focused) =>
        IF EchoesLastCommit
        THEN text_input'.composition_text = <<>>
        ELSE text_input'.composition_text = lastEv'.text]_vars

\* the scenario click, composition update (and then commit) on a new field
C5_Scenario(n) == Len(hist) = n /\ hist[2].ev.type = "TEXTEDITING"

\* C5 as stated: after click and composition update t the field shows t as
\* composition with no committed text and select-all mode off; after any
\* commit f the committed text is f and the composition is empty
C5_Original ==
    /\ C5_Scenario(2) =>
          /\ text_input.composition_text = hist[2].ev.text
          /\ text_input.text = <<>>
          /\ ~text_input.select_all_mode
    /\ C5_Scenario(3) =>
          /\ text_input.text = hist[3].ev.text
          /\ text_input.composition_text = <<>>

\* C5: the same, for a commit f that is not a control character
C5_ComposeThenCommit ==
    /\ C5_Scenario(2) =>
          /\ text_input.composition_text = hist[2].ev.text
          /\ text_input.text = <<>>
          /\ ~text_input.select_all_mode
    /\ (C5_Scenario(3) /\ ~ControlOnly(hist[3].ev.text)) =>
          /\ text_input.text = hist[3].ev.text
          /\ text_input.composition_text = <<>>

C5_Witness ==
    /\ C5_Scenario(3)
    /\ hist[2].ev.text = <<"a", "b">>
    /\ hist[3].ev.text = <<"a">>
    /\ text_input.text = <<"a">>

\* C6 as stated: after every commit to a focused field that is not dropped as
\* a repeat inside the window, the composition is empty
C6_Original ==
    [][(CommitStep /\ ~RepeatsWithinWindow) =>
        text_input'.composition_text = <<>>]_vars

\* C6: after every commit to a focused field that is neither dropped as a
\* repeat inside the window nor a control character, the composition is empty
C6_CompositionCleared ==
    [][(CommitStep /\ ~RepeatsWithinWindow /\ ~ControlOnly(lastEv'.text)) =>
        text_input'.composition_text = <<>>]_vars

\* a commit has ended a composition that was not empty
C6_Witness ==
    /\ C5_Scenario(3)
    /\ hist[2].ev.text = <<"b">>
    /\ lastEv = TextInputEv(<<"b">>)
    /\ text_input.composition_text = <<>>

\* x with its trailing character removed is y
Trimmed(x, y) == Len(y) = Len(x) - 1 /\ \A i \in 1..Len(y) : y[i] = x[i]

\* C7: a backspace on a focused field, in select-all mode, empties the
\* committed text and leaves the mode; else with a composition, removes only
\* the composition's trailing character; else removes only the committed
\* text's trailing character, if there is one
C7_Backspace ==
    [][(lastEv' = KeyDown(K_BACKSPACE) /\ text_input.focused) =>
        IF text_input.select_all_mode
        THEN text_input' = [text_input EXCEPT !.text = <<>>, !.select_all_mode = FALSE]
        ELSE IF text_input.composition_text # <<>>
        THEN /\ Trimmed(text_input.composition_text, text_input'.composition_text)
             /\ text_input' = [text_input EXCEPT
                                  !.composition_text = text_input'.composition_text]
        ELSE IF text_input.text # <<>>
        THEN /\ Trimmed(text_input.text, text_input'.text)
             /\ text_input' = [text_input EXCEPT !.text = text_input'.text]
        ELSE text_input' = text_input]_vars

\* a backspace has trimmed a two-character composition, committed text kept
C7_Witness ==
    /\ lastEv = KeyDown(K_BACKSPACE)
    /\ text_input.focused /\ ~text_input.select_all_mode
    /\ text_input.composition_text = <<"a">>
    /\ text_input.text = <<"b">>

\* C8: a left-click on the clear button leaves the committed text and the
\* composition empty and the field focused, from every state
C8_ClearButton ==
    [][(lastEv'.type = "MOUSEBUTTONDOWN" /\ lastEv'.button = 1
            /\ collidepoint(clear_rect, lastEv'.pos)) =>
        /\ text_input'.text = <<>>
        /\ text_input'.composition_text = <<>>
        /\ text_input'.focused]_vars

\* this step is a left-click at a point outside the field
ClickOutside ==
    /\ lastEv'.type = "MOUSEBUTTONDOWN" /\ lastEv'.button = 1
    /\ ~collidepoint(text_input_rect, lastEv'.pos)

\* this step is a left-click in the field, off the clear button
ClickInField ==
    /\ IsClickIn(lastEv') /\ ~collidepoint(clear_rect, lastEv'.pos)

\* C9: a left-click outside a focused field unfocuses it and ends select-all
\* mode with committed text and composition as they were; a later click into
\* the field focuses it with the committed text still there
C9_FocusLoss ==
    [][/\ (ClickOutside /\ text_input.focused) =>
            /\ ~text_input'.focused
            /\ ~text_input'.select_all_mode
            /\ text_input'.text = text_input.text
            /\ text_input'.composition_text = text_input.composition_text
       /\ (ClickInField /\ ~text_input.focused) =>
            /\ text_input'.focused
            /\ text_input'.text = text_input.text
            /\ text_input'.composition_text = text_input.composition_text]_vars

\* focus was lost with committed text and a composition in the field
C9_Witness ==
    /\ lastEv = MouseDown(1, POut)
    /\ ~text_input.focused /\ ~text_input.select_all_mode
    /\ text_input.text = <<"a">>
    /\ text_input.composition_text = <<"b">>

\* C10: every target lies in the drawable rectangle, boundary included, also
\* for metric values outside the recorded range of their key
C10_TargetsInside ==
    \A i \in 1..Len(sprites) :
        /\ pad_l <= sprites[i].target_x /\ sprites[i].target_x <= ScreenW - pad_r
        /\ pad_t <= sprites[i].target_y /\ sprites[i].target_y <= ScreenH - pad_b

\* a font change has left values below the range of the X key and above the
\* range of the Y key
C10_Witness ==
    /\ lastOp = "change_font"
    /\ \E i \in 1..Len(sprites) : sprites[i].metrics[x_key] < ranges[x_key][1]
    /\ \E i \in 1..Len(sprites) : sprites[i].metrics[y_key] > ranges[y_key][2]

\* the operations that change an axis
AxisOps == {"next_x", "next_y", "auto_switch_axis"}

\* C11: a cycle step or a random switch changes only the axis keys, the axis
\* labels and the targets: every sprite keeps its current position (fx, fy and
\* rect), its character and its metrics, and the ranges, the dataset and the
\* font index stay as they were
C11_AxisOpFrame ==
    [][lastOp' \in AxisOps =>
          /\ Len(sprites') = Len(sprites)
          /\ \A i \in 1..Len(sprites) :
                 /\ sprites'[i].fx = sprites[i].fx
                 /\ sprites'[i].fy = sprites[i].fy
                 /\ sprites'[i].rect = sprites[i].rect
                 /\ sprites'[i].char = sprites[i].char
                 /\ sprites'[i].metrics = sprites[i].metrics
          /\ ranges' = ranges
          /\ raw_data' = raw_data
          /\ metric_files' = metric_files
          /\ current_font_idx' = current_font_idx
          /\ text_input' = text_input]_vars

\* an axis operation has moved the target of a sprite away from where the
\* sprite is
C11_Witness ==
    /\ lastOp \in AxisOps
    /\ \E i \in 1..Len(sprites) :
           /\ sprites[i].fx # sprites[i].target_x * PosUnit
           /\ sprites[i].fy # sprites[i].target_y * PosUnit
           /\ sprites[i].fx \in {c * PosUnit : c \in InitCoords}

\* the upper end of a range as the layout uses it ("Avoid div by zero")
UpperEnd(k) == IF ranges[k][2] <= ranges[k][1] THEN ranges[k][1] + 1 ELSE ranges[k][2]

\* horizontal layout position of metric value v: left edge at the lower end
\* of the range, right edge at the upper end, linear in between
LayoutX(v) ==
    IF v <= ranges[x_key][1] THEN 60
    ELSE IF v >= UpperEnd(x_key) THEN ScreenW - 60
    ELSE 60 + ((v - ranges[x_key][1]) * (ScreenW - 120)) \div (UpperEnd(x_key) - ranges[x_key][1])

\* vertical layout position of metric value v: bottom edge at the lower end
\* of the range, top edge at the upper end
LayoutY(v) ==
    IF v <= ranges[y_key][1] THEN ScreenH - 60
    ELSE IF v >= UpperEnd(y_key) THEN 60
    ELSE 60 + ((UpperEnd(y_key) - v) * (ScreenH - 120)) \div (UpperEnd(y_key) - ranges[y_key][1])

\* C12: in every state (so after every cycle step, random switch, load and
\* reload) the target of every sprite is the layout position of its metrics
\* under the current axis pair and the current ranges
C12_TargetsCurrent ==
    \A i \in 1..Len(sprites) :
        /\ sprites[i].target_x = LayoutX(sprites[i].metrics[x_key])
        /\ sprites[i].target_y = LayoutY(sprites[i].metrics[y_key])

\* a reload has changed the metrics of a sprite and the range of the x axis
C12_Witness ==
    /\ lastOp = "change_font"
    /\ ranges[x_key] # compute_ranges(raw_data)[x_key]
    /\ \E i \in 1..Len(sprites) : sprites[i].metrics[x_key] # raw_data[i].metrics[x_key]

\* C20: after the load and after every reload, every entry (min, max) of the
\* range table has max > min strictly
C20_RangesStrict ==
    \A k \in DOMAIN ranges : ranges[k][2] > ranges[k][1]

Abs(n) == IF n < 0 THEN 0 - n ELSE n

\* distances (in position units) of sprite i of sps from its target
DistX(sps, i) == Abs(sps[i].target_x * PosUnit - sps[i].fx)
DistY(sps, i) == Abs(sps[i].target_y * PosUnit - sps[i].fy)

\* the step of a distance d is at least half a position unit, so that it
\* is not rounded away
Resolvable(d) == 2 * LerpNum * d >= LerpDen

\* the largest distance whose step is rounded away
StallDist == (LerpDen - 1) \div (2 * LerpNum)

\* frames after which every sprite is within StallDist of its target
ConvergeTicks == 130

\* C13 as stated: on every update the distance of every sprite to its
\* (fixed) target strictly decreases while it is non-zero
C13_Original ==
    [][lastOp' = "update" =>
          \A i \in 1..Len(sprites) :
              /\ DistX(sprites, i) > 0 => DistX(sprites', i) < DistX(sprites, i)
              /\ DistY(sprites, i) > 0 => DistY(sprites', i) < DistY(sprites, i)]_vars

\* C13: with a fixed target, on every update the distance of every sprite to
\* its target never increases, strictly decreases while its step is at least
\* half a position unit, and never becomes zero from non-zero (no snap, no
\* overshoot); after ConvergeTicks updates it is at most StallDist
C13_Converges ==
    /\ [][lastOp' = "update" =>
             \A i \in 1..Len(sprites) :
                 /\ sprites'[i].target_x = sprites[i].target_x
                 /\ sprites'[i].target_y = sprites[i].target_y
                 /\ DistX(sprites', i) <= DistX(sprites, i)
                 /\ DistY(sprites', i) <= DistY(sprites, i)
                 /\ Resolvable(DistX(sprites, i)) => DistX(sprites', i) < DistX(sprites, i)
                 /\ Resolvable(DistY(sprites, i)) => DistY(sprites', i) < DistY(sprites, i)
                 /\ DistX(sprites, i) > 0 => DistX(sprites', i) > 0
                 /\ DistY(sprites, i) > 0 => DistY(sprites', i) > 0
                 /\ (sprites[i].fx < sprites[i].target_x * PosUnit)
                        => (sprites'[i].fx < sprites[i].target_x * PosUnit)
                 /\ (sprites[i].fy > sprites[i].target_y * PosUnit)
                        => (sprites'[i].fy > sprites[i].target_y * PosUnit)]_vars
    /\ [](frame >= ConvergeTicks =>
             \A i \in 1..Len(sprites) :
                 DistX(sprites, i) <= StallDist /\ DistY(sprites, i) <= StallDist)

\* the sprites have been updated until one of them rests short of its target
C13_Witness ==
    /\ lastOp = "update"
    /\ frame >= ConvergeTicks
    /\ \E i \in 1..Len(sprites) :
           /\ DistX(sprites, i) > 0
           /\ DistX(sprites, i) <= StallDist
           /\ sprites[i].fx \notin {c * PosUnit : c \in InitCoords}

\* C14: the related set of a selected sprite contains that sprite, whether
\* or not the relationship data has an entry for its character
C14_RelatedHasSelf ==
    selected_sprite # 0 => selected_sprite \in related_nodes

\* the sprites whose character is listed as a parent or a child of char c
ListedWith(c) ==
    {i \in 1..Len(sprites) :
        \/ \E k \in 1..Len(relationships[c].parents) :
               relationships[c].parents[k] = sprites[i].char
        \/ \E k \in 1..Len(relationships[c].children) :
               relationships[c].children[k] = sprites[i].char}

\* C15: when the character of the selected sprite has a relationship entry,
\* the related set is the selected sprite plus the sprites whose character
\* the entry lists as parent or child; listed characters no sprite has are
\* dropped, and the set holds sprites only
C15_RelatedExact ==
    /\ related_nodes \subseteq 1..Len(sprites)
    /\ (selected_sprite # 0 /\ sprites[selected_sprite].char \in DOMAIN relationships)
          => related_nodes =
                {selected_sprite} \cup ListedWith(sprites[selected_sprite].char)

\* the selected sprite has an entry that lists a child and a character no
\* sprite has
C15_Witness ==
    /\ selected_sprite # 0
    /\ sprites[selected_sprite].char \in DOMAIN relationships
    /\ \E k \in 1..Len(relationships[sprites[selected_sprite].char].parents) :
           relationships[sprites[selected_sprite].char].parents[k] = NoSuchChar
    /\ Len(relationships[sprites[selected_sprite].char].children) > 0
    /\ Cardinality(related_nodes) = 2

\* k is the last-inserted sprite whose box contains p, or 0 when no box does
HitIs(k, p) ==
    \/ k = 0 /\ \A j \in 1..Len(sprites) : ~collidepoint(sprites[j].rect, p)
    \/ /\ k \in 1..Len(sprites)
       /\ collidepoint(sprites[k].rect, p)
       /\ \A j \in (k + 1)..Len(sprites) : ~collidepoint(sprites[j].rect, p)

\* the event just dispatched is a left click no UI element consumed
FreeLeftClick ==
    lastEv.type = "MOUSEBUTTONDOWN" /\ lastEv.button = 1 /\ ~ui_handled

\* C16: the hit test (of the hover check and of the selection) yields the
\* last-inserted sprite among those whose box contains the pointer, and
\* none when no box contains it
C16_HitTest ==
    /\ HitIs(hovered_sprite, mouse_pos)
    /\ FreeLeftClick => HitIs(selected_sprite, lastEv.pos)

\* a click inside two overlapping boxes has selected the later sprite
C16_Witness ==
    /\ FreeLeftClick
    /\ collidepoint(sprites[1].rect, lastEv.pos)
    /\ selected_sprite > 1
    /\ hovered_sprite = selected_sprite

Fired == lastOp' = "auto_switch_axis" /\ ((x_key' # x_key) # (y_key' # y_key))

\* this step is a frame that fired none
NotFired ==
    /\ lastOp' = "tick"
    /\ UNCHANGED <<x_key, y_key, last_auto_switch_time, auto_switch_interval>>

\* no interaction since construction, this frame included
NeverTouched == last_interaction_time' = 0

\* C18 as stated, first part: from the initial state, the first frame more
\* than idle_timeout after construction (no interaction, no switch so far)
\* fires no auto-switch
C18_Original ==
    [][(now' # now /\ NeverTouched /\ last_auto_switch_time = 0 /\ now' > 10000)
          => NotFired]_vars

\* C18: from the initial state and without interaction, the first frame more
\* than idle_timeout after construction fires one auto-switch (no switch has
\* been made, last_auto_switch_time is 0); after a switch a frame at most the
\* current interval later fires none, and a frame more than the interval
\* later fires exactly one, sets last_auto_switch_time to the time of the
\* frame and draws the interval again from 350..800
C18_IdleScenario ==
    [][(now' # now /\ NeverTouched) =>
          /\ (last_auto_switch_time = 0 /\ now' > 10000) => Fired
          /\ (last_auto_switch_time > 0
                 /\ now' - last_auto_switch_time <= auto_switch_interval) => NotFired
          /\ (last_auto_switch_time > 0
                 /\ now' - last_auto_switch_time > auto_switch_interval) => Fired
          /\ Fired => /\ last_auto_switch_time' = now'
                      /\ auto_switch_interval' \in 350..800]_vars

\* without interaction a switch was fired at 10001, the frames 300 and 600
\* later fired none and the frame 900 later has fired one
C18_Witness ==
    /\ lastOp = "auto_switch_axis"
    /\ last_interaction_time = 0
    /\ now = 10001 + 900
    /\ last_auto_switch_time = now

\* C19: a frame fires an auto-switch only if more than idle_timeout has
\* passed since the last interaction and more than the interval since the
\* last switch; a frame whose batch holds a pointer move, a pointer button
\* or a key-down event records the time of the frame as the last interaction
\* and fires none, so none fires until idle_timeout has passed since it
C19_FiresOnlyIdle ==
    [][now' # now =>
          /\ lastEv'.type \in {"MOUSEMOTION", "MOUSEBUTTONDOWN", "KEYDOWN"}
                => last_interaction_time' = now' /\ NotFired
          /\ lastEv'.type = "NONE" => last_interaction_time' = last_interaction_time
          /\ lastOp' = "auto_switch_axis"
                => /\ now' - last_interaction_time' > 10000
                   /\ now' - last_auto_switch_time > auto_switch_interval
          /\ lastOp' \in {"auto_switch_axis", "tick"}]_vars

\* an auto-switch has fired more than idle_timeout after an interaction
C19_Witness ==
    /\ lastOp = "auto_switch_axis"
    /\ last_interaction_time > 0
    /\ now - last_interaction_time > 10000

\* C27: a commit of a control-only fragment (carriage return, newline, tab)
\* handled by a focused field is accepted and leaves the committed text as
\* it was
C27_ControlNoMutation ==
    [][(CommitStep /\ lastEv'.text \in {CR, LF, TAB})
          => lastRet' /\ text_input'.text = text_input.text]_vars

\* this step turns select-all mode on
FlagSet == ~text_input.select_all_mode /\ text_input'.select_all_mode

\* the event of this step is a left click inside the field that is not a
\* click on the clear button of a non-empty field
FieldClick ==
    /\ lastEv'.type = "MOUSEBUTTONDOWN"
    /\ lastEv'.button = 1
    /\ collidepoint(text_input_rect, lastEv'.pos)
    /\ ~(text_input.text # <<>> /\ collidepoint(clear_rect, lastEv'.pos))

\* C28 as stated: select-all mode becomes set only on a step that takes the
\* field from unfocused to focused
C28_Original ==
    [][FlagSet => ~text_input.focused /\ text_input'.focused]_vars

\* C28: select-all mode becomes set only by a left click inside the field
\* (focused before or not), which leaves the field focused and the committed
\* text as it was; no commit, composition update, key or motion event sets it
C28_FlagSetByClick ==
    [][FlagSet =>
          /\ FieldClick
          /\ text_input'.focused
          /\ text_input'.text = text_input.text]_vars

\* a click inside the field has set select-all mode on a field that holds
\* committed text and has consumed the mode before
C28_Witness ==
    /\ text_input.select_all_mode
    /\ text_input.focused
    /\ text_input.text # <<>>
    /\ text_input.has_last_input_text
    /\ IsClickIn(lastEv)

\* C30: in every state select-all mode implies focus
C30_FlagImpliesFocus ==
    text_input.select_all_mode => text_input.focused

\* the field has lost focus after select-all mode was set and consumed
C30_Witness ==
    /\ ~text_input.focused
    /\ ~text_input.select_all_mode
    /\ text_input.has_last_input_text
    /\ lastEv.type = "MOUSEBUTTONDOWN"
    /\ lastEv.button = 1

\* position of key k in METRICS, counted from 1
PosOf(k) == CHOOSE i \in 1..Len(METRICS) : METRICS[i] = k

\* the key d places after key k in the cyclic order
KeyAfter(k, d) == METRICS[((PosOf(k) - 1 + d) % Len(METRICS)) + 1]

\* the first key after cur, in the cyclic order, that differs from other
FirstAfter(cur, other) ==
    KeyAfter(cur, Min({d \in 1..Len(METRICS) : KeyAfter(cur, d) # other}))

\* C25: next_x sets x_key to the first key after the old x_key in the cyclic
\* order of METRICS that differs from y_key and leaves y_key unchanged;
\* next_y does the same with the roles swapped
C25_CycleStep ==
    [][/\ lastOp' = "next_x" => x_key' = FirstAfter(x_key, y_key) /\ y_key' = y_key
       /\ lastOp' = "next_y" => y_key' = FirstAfter(y_key, x_key) /\ x_key' = x_key]_vars

\* a cycle step of x has skipped the key of the y axis
C25_Witness ==
    /\ lastOp = "next_x"
    /\ x_key = KeyAfter(y_key, 1)

\* C26: auto_switch_axis changes exactly one of the two axes, the new key
\* differs from both previous keys, and in every state every key other than
\* the two current ones is a possible outcome for either axis
C26_RandomSwitch ==
    /\ [][lastOp' = "auto_switch_axis" =>
             /\ (x_key' # x_key) # (y_key' # y_key)
             /\ x_key' # x_key => x_key' \notin {x_key, y_key}
             /\ y_key' # y_key => y_key' \notin {x_key, y_key}]_vars
    /\ [](\A k \in MetricKeys \ {x_key, y_key} :
             /\ ENABLED (x_key' = k /\ y_key' = y_key /\ auto_switch_axis)
             /\ ENABLED (y_key' = k /\ x_key' = x_key /\ auto_switch_axis))

\* a random switch has put the last key of METRICS on the x axis
C26_Witness ==
    /\ lastOp = "auto_switch_axis"
    /\ x_key = METRICS[Len(METRICS)]
    /\ y_key = "skeleton_length"

\* C29: a left click on the hovered X button runs next_x once: x_key
\* advances by one cycle step and y_key stays
C29_OneStepPerClick ==
    [][(/\ lastOp' = "event"
        /\ lastEv'.type = "MOUSEBUTTONDOWN"
        /\ lastEv'.button = 1
        /\ btn_x_hovered)
          => x_key' = FirstAfter(x_key, y_key) /\ y_key' = y_key]_vars

\* this step dispatches the next event of the batch
DispatchStep == pending # <<>> /\ pending' = Tail(pending)

\* C23: a backspace key-down of the batch reaches a focused field: with
\* select-all mode clear, the composition empty and committed text present,
\* the step that handles it removes the trailing character of the text
C23_BackspaceReachesField ==
    [][(/\ DispatchStep
        /\ Head(pending) = KeyDown(K_BACKSPACE)
        /\ text_input.focused
        /\ ~text_input.select_all_mode
        /\ text_input.composition_text = <<>>
        /\ text_input.text # <<>>)
          => text_input'.text = SubSeq(text_input.text, 1, Len(text_input.text) - 1)]_vars

\* C24: when an event of the batch is dispatched, last_interaction_time is
\* already the time of the frame if any event of the batch still to come is
\* an interaction
C24_TimestampBeforeDispatch ==
    [][(/\ DispatchStep
        /\ \E i \in 1..Len(pending) :
               pending[i].type \in {"MOUSEMOTION", "MOUSEBUTTONDOWN", "KEYDOWN"})
          => last_interaction_time' = now]_vars

\* C21: whenever the metrics file of the current font preset holds no
\* record, the load has ended with an exception raised to the caller
C21_EmptyLoadFails ==
    metric_files[current_font_idx] = <<>> => lastOp \in Raised

\* C22: after every load that completed, every sprite has a value for every
\* key of METRICS
C22_AllKeysPresent ==
    lastOp \notin Raised =>
        \A i \in 1..Len(sprites) : DOMAIN sprites[i].metrics = MetricKeys

====
